---- MODULE Spec2Model ----
(***************************************************************************)
(* lib-plugin-manifest: package manifests, their expansion into            *)
(* single-plugin manifests (PackageManifest::expand_plugins) and the       *)
(* dependency-aware install order (PackageManifest::install_order); the    *)
(* platform utility; the unified Manifest facade; parsing and serializing  *)
(* of single-plugin manifests.                                             *)
(*                                                                         *)
(* Package state: the package read so far from its manifest text, plus the *)
(* values the operations returned for it.  Every prefix of a manifest is   *)
(* itself a manifest, and a package is immutable once an operation has     *)
(* been applied to it.  Each specification below moves one group of        *)
(* variables and leaves the other groups at rest.                          *)
(***************************************************************************)
EXTENDS Integers, Sequences, FiniteSets, TLC

(* ------------------------------ bounds --------------------------------- *)

\* Largest number of [[plugins]] tables in a package.
MaxPlugins == 3

\* Largest number of depends_on entries in one manifest, counted over all
\* its [[plugins]] tables and its [compatibility] section.
MaxDependsOn == 3

\* Largest number of entries (plugin tables, depends_on, platforms and
\* checksums entries, api_version and host version keys) in a package
\* manifest with shared sections.
MaxEntries == 4

\* Largest number of entries of a compatibility.platforms list whose
\* support is asked.
MaxPlatforms == 2

\* Largest number of [[provides]] tables in a manifest text.
MaxProvides == 1

\* Largest number of directories above the directory of a Cargo.toml.
MaxDepth == 3

\* Largest number of arguments after the program name.
MaxArgs == 3

\* Plugin ids.  An id is absent from a package when no PluginDef carries it.
Ids == {"a", "b", "c"}

\* Values of package.version.
Versions == {"1.0.0", "2.0.0"}

(* ------------------------------ data ----------------------------------- *)

\* Option<T>: None, or Some(v).
None == <<>>

Some(v) == <<v>>

\* A HashMap<String, String> is a function from its keys; this is the
\* empty one.
EmptyMap == <<>>

\* PluginDef: the fields the operations below read or copy by name.  binary
\* is mandatory; a table is read with the binary named after its id until
\* ParseBinaryPluginTable chooses it freely.
PluginDef(id, depends_on) ==
    [id |-> id, binary |-> "plugin_" \o id, depends_on |-> depends_on]

\* fn default_api_version() -> u32.
default_api_version == 2

\* CompatibilityInfo with the given depends_on and every other field at its
\* serde default (impl Default for CompatibilityInfo).
CompatibilityInfo(depends_on) ==
    [api_version      |-> default_api_version,
     min_host_version |-> None,
     max_host_version |-> None,
     platforms        |-> <<>>,
     depends_on       |-> depends_on]

\* PackageManifest; [binary] absent, so PackageBinaryInfo::default().
PackageManifest(version, shared, plugins) ==
    [package       |-> [version |-> version],
     compatibility |-> CompatibilityInfo(shared),
     plugins       |-> plugins,
     binary        |-> [checksums |-> EmptyMap]]

(* --------------------------- install_order ----------------------------- *)

\* plugin_map: HashMap<&str, &PluginDef> collected from plugins in order, so
\* a later entry replaces an earlier one with the same id.  A &PluginDef is
\* modelled by its index in plugins.
MapKeys(plugins) == { plugins[i].id : i \in 1..Len(plugins) }

MapGet(plugins, id) ==
    CHOOSE i \in 1..Len(plugins) :
        /\ plugins[i].id = id
        /\ \A j \in 1..Len(plugins) : plugins[j].id = id => j <= i

\* The mutable locals of install_order, plus the error a `?` propagates.
NewTraversal ==
    [result |-> <<>>, visited |-> {}, in_progress |-> {},
     failed |-> FALSE, id |-> ""]

RECURSIVE visit(_, _, _)
RECURSIVE visit_deps(_, _, _, _)

\* visit with `visited.insert(plugin_id.to_string())` left out.
visit_without_visited(plugin_id, plugins, st) ==
    IF plugin_id \in st.visited THEN st
    ELSE IF plugin_id \in st.in_progress
    THEN [st EXCEPT !.failed = TRUE, !.id = plugin_id]
    ELSE LET entered == [st EXCEPT !.in_progress = @ \cup {plugin_id}]
         IN  IF plugin_id \in MapKeys(plugins)
             THEN LET plugin == MapGet(plugins, plugin_id)
                      after  == visit_deps(plugins[plugin].depends_on, 1,
                                           plugins, entered)
                  IN  IF after.failed THEN after
                      ELSE [after EXCEPT
                              !.in_progress = @ \ {plugin_id},
                              !.result      = Append(@, plugin)]
             ELSE entered

\* for dep in &plugin.depends_on { visit(dep, ...)?; } from entry k on.
visit_deps(deps, k, plugins, st) ==
    IF k > Len(deps) \/ st.failed THEN st
    ELSE visit_deps(deps, k + 1, plugins, visit(deps[k], plugins, st))

visit(plugin_id, plugins, st) ==
    IF plugin_id \in st.visited THEN st
    ELSE IF plugin_id \in st.in_progress
    THEN [st EXCEPT !.failed = TRUE, !.id = plugin_id]
    ELSE LET entered == [st EXCEPT !.in_progress = @ \cup {plugin_id}]
         IN  IF plugin_id \in MapKeys(plugins)
             THEN LET plugin == MapGet(plugins, plugin_id)
                      after  == visit_deps(plugins[plugin].depends_on, 1,
                                           plugins, entered)
                  IN  IF after.failed THEN after
                      ELSE [after EXCEPT
                              !.in_progress = @ \ {plugin_id},
                              !.visited     = @ \cup {plugin_id},
                              !.result      = Append(@, plugin)]
             ELSE entered

\* for plugin in &self.plugins { visit(&plugin.id, ...)?; } from entry k on.
RECURSIVE visit_roots(_, _, _)
visit_roots(plugins, k, st) ==
    IF k > Len(plugins) \/ st.failed THEN st
    ELSE visit_roots(plugins, k + 1, visit(plugins[k].id, plugins, st))

\* Result<Vec<&PluginDef>, ManifestError>.
Ok(list) == [called |-> TRUE, ok |-> TRUE, list |-> list, id |-> ""]

CircularDependency(id) == [called |-> TRUE, ok |-> FALSE, list |-> <<>>, id |-> id]

NotCalled == [called |-> FALSE, ok |-> FALSE, list |-> <<>>, id |-> ""]

install_order(p) ==
    LET st == visit_roots(p.plugins, 1, NewTraversal)
    IN  IF st.failed THEN CircularDependency(st.id) ELSE Ok(st.result)

(* --------------------------- expand_plugins ---------------------------- *)

\* BinaryInfo.
BinaryInfo(name, checksums) == [name |-> name, checksums |-> checksums]

\* copy_checksums without the loop: the new map stays empty.
copy_no_checksums(checksums) == EmptyMap

\* let mut checksums = HashMap::new(); for (platform, checksum) in
\* &self.binary.checksums { checksums.insert(platform, checksum) }.
copy_checksums(checksums) ==
    [platform \in DOMAIN checksums |-> checksums[platform]]

\* The fields expand_plugins sets to a fixed value.
Unpopulated ==
    [cli          |-> None,
     capabilities |-> <<>>,
     tags         |-> None,
     hive         |-> None,
     translation  |-> None,
     language     |-> None,
     requirements |-> None]

\* expand_one with version cloned from the wrong field.
expand_one_wrong_version(p, plugin_def) ==
    [plugin        |-> [id |-> plugin_def.id, version |-> plugin_def.id],
     binary        |-> BinaryInfo(plugin_def.binary,
                                  copy_checksums(p.binary.checksums)),
     compatibility |-> IF plugin_def.depends_on # <<>>
                       THEN [p.compatibility EXCEPT
                               !.depends_on = plugin_def.depends_on]
                       ELSE p.compatibility]
    @@ Unpopulated

\* expand_one registering the plugin as a CLI command of its own id.
expand_one_with_cli(p, plugin_def) ==
    [plugin        |-> [id |-> plugin_def.id, version |-> p.package.version],
     binary        |-> BinaryInfo(plugin_def.binary,
                                  copy_checksums(p.binary.checksums)),
     compatibility |-> IF plugin_def.depends_on # <<>>
                       THEN [p.compatibility EXCEPT
                               !.depends_on = plugin_def.depends_on]
                       ELSE p.compatibility]
    @@ [Unpopulated EXCEPT !.cli = Some([command |-> plugin_def.id])]

\* expand_one appending the plugin's depends_on to the shared list.
expand_one_merging(p, plugin_def) ==
    [plugin        |-> [id |-> plugin_def.id, version |-> p.package.version],
     binary        |-> BinaryInfo(plugin_def.binary,
                                  copy_checksums(p.binary.checksums)),
     compatibility |-> [p.compatibility EXCEPT
                          !.depends_on = @ \o plugin_def.depends_on]]
    @@ Unpopulated

\* expand_one building a fresh compatibility for an overriding plugin.
expand_one_fresh_compatibility(p, plugin_def) ==
    [plugin        |-> [id |-> plugin_def.id, version |-> p.package.version],
     binary        |-> BinaryInfo(plugin_def.binary,
                                  copy_checksums(p.binary.checksums)),
     compatibility |-> IF plugin_def.depends_on # <<>>
                       THEN CompatibilityInfo(plugin_def.depends_on)
                       ELSE p.compatibility]
    @@ Unpopulated

\* The PluginManifest built for one plugin_def.
expand_one(p, plugin_def) ==
    [plugin        |-> [id |-> plugin_def.id, version |-> p.package.version],
     binary        |-> BinaryInfo(plugin_def.binary,
                                  copy_checksums(p.binary.checksums)),
     compatibility |-> IF plugin_def.depends_on # <<>>
                       THEN [p.compatibility EXCEPT
                               !.depends_on = plugin_def.depends_on]
                       ELSE p.compatibility]
    @@ Unpopulated

\* expand_plugins mapping over the install order instead of self.plugins.
expand_plugins_in_install_order(p) ==
    LET o == install_order(p)
    IN  [k \in 1..Len(o.list) |-> expand_one(p, p.plugins[o.list[k]])]

expand_plugins(p) ==
    [i \in 1..Len(p.plugins) |-> expand_one(p, p.plugins[i])]

(* ------------------------------ facade --------------------------------- *)

CliConfig(command, aliases) ==
    [command |-> command, description |-> "Manage " \o command,
     aliases |-> aliases, dynamic_completions |-> FALSE]

\* A PluginManifest that gives its id, version and cli and leaves every
\* other section at its default.
PluginManifest(id, version, cli) ==
    [plugin        |-> [id |-> id, version |-> version],
     binary        |-> BinaryInfo("plugin", EmptyMap),
     compatibility |-> CompatibilityInfo(<<>>)]
    @@ [Unpopulated EXCEPT !.cli = cli]

\* enum Manifest.
Single(m) ==
    [variant |-> "Single", single |-> m,
     package |-> PackageManifest("", <<>>, <<>>)]

Package(p) ==
    [variant |-> "Package", single |-> PluginManifest("", "", None),
     package |-> p]

\* plugin_ids listing the package's ids in install order.
plugin_ids_in_install_order(manifest) ==
    IF manifest.variant = "Single"
    THEN <<manifest.single.plugin.id>>
    ELSE LET o == install_order(manifest.package)
         IN  [k \in 1..Len(o.list) |-> manifest.package.plugins[o.list[k]].id]

plugin_ids(manifest) ==
    IF manifest.variant = "Single"
    THEN <<manifest.single.plugin.id>>
    ELSE [k \in 1..Len(manifest.package.plugins) |->
            manifest.package.plugins[k].id]

is_package(manifest) == manifest.variant = "Package"

\* cli_config answering for a package with a command named after its
\* first plugin.
cli_config_of_first_plugin(manifest) ==
    IF manifest.variant = "Single"
    THEN manifest.single.cli
    ELSE IF manifest.package.plugins = <<>> THEN None
         ELSE Some(CliConfig(manifest.package.plugins[1].id, <<>>))

cli_config(manifest) ==
    IF manifest.variant = "Single"
    THEN manifest.single.cli
    ELSE None

(* ---------------------------- manifest text --------------------------- *)

\* A manifest text is a sequence of lines.  A line is a table header
\* ([name], or [ name ] when padded), an array-of-tables header ([[name]]),
\* a key with its value, or a comment.
NoValue == [type |-> "none", str |-> "", int |-> 0, items |-> <<>>]

Str(s) == [NoValue EXCEPT !.type = "string", !.str = s]

Num(n) == [NoValue EXCEPT !.type = "integer", !.int = n]

Arr(items) == [NoValue EXCEPT !.type = "array", !.items = items]

Bool(b) == [NoValue EXCEPT !.type = "boolean", !.int = IF b THEN 1 ELSE 0]

TableHeader(name, padded) ==
    [kind |-> "table", name |-> name, padded |-> padded, value |-> NoValue]

ArrayHeader(name) ==
    [kind |-> "array", name |-> name, padded |-> FALSE, value |-> NoValue]

KeyValue(key, value) ==
    [kind |-> "key", name |-> key, padded |-> FALSE, value |-> value]

Comment(s) ==
    [kind |-> "comment", name |-> s, padded |-> FALSE, value |-> NoValue]

\* The characters of a string, to the grain str::contains needs here:
\* brackets apart, words whole.
Tokens(s) ==
    IF s = "[package]" THEN <<"[", "package", "]">>
    ELSE IF s = "[plugin]" THEN <<"[", "plugin", "]">>
    ELSE <<s>>

Digits == <<"0", "1", "2", "3", "4", "5", "6", "7", "8", "9">>

RECURSIVE RenderItems(_, _)
RenderItems(items, k) ==
    IF k > Len(items) THEN <<>>
    ELSE <<"\"">> \o Tokens(items[k]) \o <<"\"", ",">>
         \o RenderItems(items, k + 1)

RenderValue(value) ==
    IF value.type = "string" THEN <<"\"">> \o Tokens(value.str) \o <<"\"">>
    ELSE IF value.type = "integer" THEN <<Digits[value.int + 1]>>
    ELSE IF value.type = "boolean"
         THEN <<IF value.int = 1 THEN "true" ELSE "false">>
    ELSE <<"[">> \o RenderItems(value.items, 1) \o <<"]">>

\* The characters of one line of the text.
Render(line) ==
    (IF line.kind = "table"
     THEN IF line.padded THEN <<"[", " ", line.name, " ", "]">>
          ELSE <<"[", line.name, "]">>
     ELSE IF line.kind = "array" THEN <<"[", "[", line.name, "]", "]">>
     ELSE IF line.kind = "key"
          THEN <<line.name, " ", "=", " ">> \o RenderValue(line.value)
     ELSE <<"#", " ">> \o Tokens(line.name))
    \o <<"\n">>

RECURSIVE RenderLines(_, _)
RenderLines(content, k) ==
    IF k > Len(content) THEN <<>>
    ELSE Render(content[k]) \o RenderLines(content, k + 1)

\* str::contains.
Contains(content, pattern) ==
    LET hay    == RenderLines(content, 1)
        needle == Tokens(pattern)
    IN  \E i \in 1..(Len(hay) - Len(needle) + 1) :
           SubSeq(hay, i, i + Len(needle) - 1) = needle

\* toml::from_str, first half: the text as a document of tables and arrays
\* of tables.  Keys before the first header belong to the root table "".
EmptyDocument ==
    [valid  |-> TRUE,
     tables |-> ("" :> EmptyMap),
     arrays |-> EmptyMap,
     at     |-> [array |-> FALSE, name |-> ""]]

read_table_header(doc, line) ==
    [doc EXCEPT !.valid  = @ /\ line.name \notin DOMAIN doc.tables
                            /\ line.name \notin DOMAIN doc.arrays,
                !.tables = (line.name :> EmptyMap) @@ @,
                !.at     = [array |-> FALSE, name |-> line.name]]

read_array_header(doc, line) ==
    [doc EXCEPT !.valid  = @ /\ line.name \notin DOMAIN doc.tables,
                !.arrays = IF line.name \in DOMAIN @
                           THEN [@ EXCEPT ![line.name] = Append(@, EmptyMap)]
                           ELSE (line.name :> <<EmptyMap>>) @@ @,
                !.at     = [array |-> TRUE, name |-> line.name]]

read_key(doc, line) ==
    IF doc.at.array
    THEN LET tables == doc.arrays[doc.at.name]
             last   == Len(tables)
         IN  [doc EXCEPT
                !.valid  = @ /\ line.name \notin DOMAIN tables[last],
                !.arrays[doc.at.name][last] = (line.name :> line.value) @@ @]
    ELSE [doc EXCEPT
            !.valid  = @ /\ line.name \notin DOMAIN doc.tables[doc.at.name],
            !.tables[doc.at.name] = (line.name :> line.value) @@ @]

RECURSIVE read_lines(_, _, _)
read_lines(content, k, doc) ==
    IF k > Len(content) THEN doc
    ELSE LET line == content[k]
         IN  read_lines(content, k + 1,
                IF line.kind = "table" THEN read_table_header(doc, line)
                ELSE IF line.kind = "array" THEN read_array_header(doc, line)
                ELSE IF line.kind = "key" THEN read_key(doc, line)
                ELSE doc)

toml_from_str(content) == read_lines(content, 1, EmptyDocument)

(* --------------------------- from_toml, to_toml ------------------------ *)

\* Result<T, ManifestError> of a parse or a serialization.
Parsed(value) == [called |-> TRUE, ok |-> TRUE, error |-> "", value |-> value]

Err(error) == [called |-> TRUE, ok |-> FALSE, error |-> error, value |-> None]

NotParsed == [called |-> FALSE, ok |-> FALSE, error |-> "", value |-> None]

\* The fields a derive(Deserialize) struct declares without a default.
PluginMetaRequired == <<"id", "name", "version", "type">>

CliConfigRequired == <<"command", "description">>

ServiceDeclarationRequired == <<"id", "version">>

PackageMetaRequired == <<"id", "name", "version">>

PluginDefRequired == <<"id", "name", "type", "binary">>

HasAll(table, required) ==
    \A k \in 1..Len(required) : required[k] \in DOMAIN table

default_binary_name == "plugin"

deserialize_PluginMeta(table) ==
    [id          |-> table["id"].str,
     name        |-> table["name"].str,
     version     |-> table["version"].str,
     plugin_type |-> table["type"].str]

deserialize_CompatibilityInfo(table) ==
    [CompatibilityInfo(<<>>) EXCEPT
       !.api_version = IF "api_version" \in DOMAIN table
                       THEN table["api_version"].int
                       ELSE default_api_version]

\* deserialize_BinaryInfo taking the name of a section that omits it to be
\* empty.
deserialize_BinaryInfo_unnamed(table) ==
    BinaryInfo(IF "name" \in DOMAIN table THEN table["name"].str ELSE "",
               EmptyMap)

deserialize_BinaryInfo(table) ==
    BinaryInfo(IF "name" \in DOMAIN table THEN table["name"].str
               ELSE default_binary_name,
               EmptyMap)

deserialize_CliConfig(table) ==
    [command             |-> table["command"].str,
     description         |-> table["description"].str,
     aliases             |-> IF "aliases" \in DOMAIN table
                             THEN table["aliases"].items ELSE <<>>,
     dynamic_completions |-> IF "dynamic_completions" \in DOMAIN table
                             THEN table["dynamic_completions"].int = 1
                             ELSE FALSE]

deserialize_ServiceDeclaration(table) ==
    [id          |-> table["id"].str,
     version     |-> table["version"].str,
     description |-> IF "description" \in DOMAIN table
                     THEN table["description"].str ELSE ""]

deserialize_PluginDef(table) ==
    [PluginDef(table["id"].str, <<>>) EXCEPT !.binary = table["binary"].str]

\* The document has what derive(Deserialize) for PluginManifest demands.
PluginDocumentComplete(doc) ==
    /\ doc.valid
    /\ "plugin" \in DOMAIN doc.tables
    /\ HasAll(doc.tables["plugin"], PluginMetaRequired)
    /\ "cli" \in DOMAIN doc.tables
         => HasAll(doc.tables["cli"], CliConfigRequired)
    /\ "provides" \in DOMAIN doc.arrays
         => \A k \in 1..Len(doc.arrays["provides"]) :
               HasAll(doc.arrays["provides"][k], ServiceDeclarationRequired)

\* derive(Deserialize) for PluginManifest, on a complete document.
deserialize_PluginManifest(doc) ==
    [plugin        |-> deserialize_PluginMeta(doc.tables["plugin"]),
     compatibility |-> IF "compatibility" \in DOMAIN doc.tables
                       THEN deserialize_CompatibilityInfo(
                                doc.tables["compatibility"])
                       ELSE CompatibilityInfo(<<>>),
     binary        |-> IF "binary" \in DOMAIN doc.tables
                       THEN deserialize_BinaryInfo(doc.tables["binary"])
                       ELSE BinaryInfo(default_binary_name, EmptyMap),
     provides      |-> IF "provides" \in DOMAIN doc.arrays
                       THEN [k \in 1..Len(doc.arrays["provides"]) |->
                               deserialize_ServiceDeclaration(
                                   doc.arrays["provides"][k])]
                       ELSE <<>>,
     cli           |-> IF "cli" \in DOMAIN doc.tables
                       THEN Some(deserialize_CliConfig(doc.tables["cli"]))
                       ELSE None]
    @@ Unpopulated

\* from_toml reporting an incomplete document as a missing field.
PluginManifest_from_toml_missing_field(content) ==
    LET doc == toml_from_str(content)
    IN  IF ~PluginDocumentComplete(doc) THEN Err("MissingField")
        ELSE Parsed(deserialize_PluginManifest(doc))

\* PluginManifest::from_toml.
PluginManifest_from_toml(content) ==
    LET doc == toml_from_str(content)
    IN  IF ~PluginDocumentComplete(doc) THEN Err("TomlParse")
        ELSE Parsed(deserialize_PluginManifest(doc))

\* The document has what derive(Deserialize) for PackageManifest demands.
PackageDocumentComplete(doc) ==
    /\ doc.valid
    /\ "package" \in DOMAIN doc.tables
    /\ HasAll(doc.tables["package"], PackageMetaRequired)
    /\ "plugins" \in DOMAIN doc.arrays
    /\ \A k \in 1..Len(doc.arrays["plugins"]) :
          HasAll(doc.arrays["plugins"][k], PluginDefRequired)

\* PackageManifest::from_toml.
PackageManifest_from_toml(content) ==
    LET doc == toml_from_str(content)
    IN  IF ~PackageDocumentComplete(doc) THEN Err("TomlParse")
        ELSE Parsed(
          [PackageManifest(
               doc.tables["package"]["version"].str, <<>>,
               [k \in 1..Len(doc.arrays["plugins"]) |->
                  deserialize_PluginDef(doc.arrays["plugins"][k])])
           EXCEPT !.compatibility =
                    IF "compatibility" \in DOMAIN doc.tables
                    THEN deserialize_CompatibilityInfo(
                             doc.tables["compatibility"])
                    ELSE CompatibilityInfo(<<>>)])

\* Manifest::from_toml looking for [plugin] first.
Manifest_from_toml_plugin_first(content) ==
    IF Contains(content, "[plugin]")
    THEN LET r == PluginManifest_from_toml(content)
         IN  IF r.ok THEN Parsed(Single(r.value)) ELSE r
    ELSE IF Contains(content, "[package]")
    THEN LET r == PackageManifest_from_toml(content)
         IN  IF r.ok THEN Parsed(Package(r.value)) ELSE r
    ELSE Err("InvalidFormat")

\* Manifest::from_toml trying the single-plugin parser when the package
\* parser fails.
Manifest_from_toml_with_fallback(content) ==
    IF Contains(content, "[package]")
    THEN LET r == PackageManifest_from_toml(content)
             q == PluginManifest_from_toml(content)
         IN  IF r.ok THEN Parsed(Package(r.value))
             ELSE IF Contains(content, "[plugin]") /\ q.ok
             THEN Parsed(Single(q.value))
             ELSE r
    ELSE IF Contains(content, "[plugin]")
    THEN LET r == PluginManifest_from_toml(content)
         IN  IF r.ok THEN Parsed(Single(r.value)) ELSE r
    ELSE Err("InvalidFormat")

\* Manifest::from_toml.
Manifest_from_toml(content) ==
    IF Contains(content, "[package]")
    THEN LET r == PackageManifest_from_toml(content)
         IN  IF r.ok THEN Parsed(Package(r.value)) ELSE r
    ELSE IF Contains(content, "[plugin]")
    THEN LET r == PluginManifest_from_toml(content)
         IN  IF r.ok THEN Parsed(Single(r.value)) ELSE r
    ELSE Err("InvalidFormat")

\* The lines a table of ServiceDeclaration serializes to.
RECURSIVE serialize_provides(_, _)
serialize_provides(provides, k) ==
    IF k > Len(provides) THEN <<>>
    ELSE <<ArrayHeader("provides"),
           KeyValue("id", Str(provides[k].id)),
           KeyValue("version", Str(provides[k].version)),
           KeyValue("description", Str(provides[k].description))>>
         \o serialize_provides(provides, k + 1)

serialize_cli(cli) ==
    IF cli = None THEN <<>>
    ELSE <<TableHeader("cli", FALSE),
           KeyValue("command", Str(cli[1].command)),
           KeyValue("description", Str(cli[1].description)),
           KeyValue("aliases", Arr(cli[1].aliases)),
           KeyValue("dynamic_completions", Bool(cli[1].dynamic_completions))>>

\* The lines derive(Serialize) for PluginManifest gives, with the name of
\* the plugin type's key left open: values of the root table first, then
\* the tables in the order of the fields; a None is left out.
serialize_PluginManifest(m, type_key) ==
    (IF m.provides = <<>> THEN <<KeyValue("provides", Arr(<<>>))>> ELSE <<>>)
    \o <<TableHeader("plugin", FALSE),
         KeyValue("id", Str(m.plugin.id)),
         KeyValue("name", Str(m.plugin.name)),
         KeyValue("version", Str(m.plugin.version)),
         KeyValue(type_key, Str(m.plugin.plugin_type)),
         TableHeader("compatibility", FALSE),
         KeyValue("api_version", Num(m.compatibility.api_version)),
         KeyValue("platforms", Arr(m.compatibility.platforms)),
         KeyValue("depends_on", Arr(m.compatibility.depends_on)),
         TableHeader("binary", FALSE),
         KeyValue("name", Str(m.binary.name))>>
    \o serialize_provides(m.provides, 1)
    \o serialize_cli(m.cli)

\* to_toml writing the plugin type under the name of the Rust field.
to_toml_without_rename(m) == Parsed(serialize_PluginManifest(m, "plugin_type"))

\* PluginManifest::to_toml.
to_toml(m) == Parsed(serialize_PluginManifest(m, "type"))

(* --------------------------- cargo_extract ----------------------------- *)

\* Result<T, ManifestError> of cargo_extract: field is the path a
\* MissingField names, consulted the directories whose Cargo.toml was looked
\* for, in the order of the looks.
Resolved(value, consulted) ==
    [called |-> TRUE, ok |-> TRUE, error |-> "", field |-> "",
     value |-> value, consulted |-> consulted]

Refused(error, field, consulted) ==
    [called |-> TRUE, ok |-> FALSE, error |-> error, field |-> field,
     value |-> "", consulted |-> consulted]

NotResolved ==
    [called |-> FALSE, ok |-> FALSE, error |-> "", field |-> "",
     value |-> "", consulted |-> <<>>]

\* What package.get("version") finds: nothing, a string, a table whose
\* workspace key is missing or holds some value, or a value of another type.
VersionString(s) == [type |-> "string", str |-> s, workspace |-> None]

VersionTable(workspace) == [type |-> "table", str |-> "", workspace |-> workspace]

VersionInteger == [type |-> "integer", str |-> "", workspace |-> None]

\* The Cargo.toml of a directory above: missing, or there and unreadable,
\* unparseable, or parsed with or without workspace.package.version.
NoDescriptor ==
    [exists |-> FALSE, readable |-> FALSE, parses |-> FALSE, version |-> None]

Unreadable == [NoDescriptor EXCEPT !.exists = TRUE]

Unparseable == [Unreadable EXCEPT !.readable = TRUE]

WithoutWorkspaceVersion == [Unparseable EXCEPT !.parses = TRUE]

WithWorkspaceVersion(v) == [WithoutWorkspaceVersion EXCEPT !.version = Some(v)]

\* A path to a Cargo.toml: absolute or relative to the working directory,
\* with so many directory names before the file name; the empty path names
\* no file.  tree[k] is the Cargo.toml of the directory k - 1 levels below
\* the root, and the Cargo.toml of the path lies below all of the tree.
AbsolutePath(dirs) == [named |-> TRUE, absolute |-> TRUE, dirs |-> dirs]

RelativePath(dirs) == [named |-> TRUE, absolute |-> FALSE, dirs |-> dirs]

EmptyPath == [named |-> FALSE, absolute |-> FALSE, dirs |-> 0]

\* The level below which Path::parent finds nothing more: the root for an
\* absolute path, the working directory for a relative one.
LastParent(path, tree) ==
    IF path.absolute THEN 0 ELSE Len(tree) - path.dirs

\* The loop of resolve_workspace_version, dir being the directory at level.
RECURSIVE walk(_, _, _, _)
walk(level, last, tree, consulted) ==
    IF level <= last
    THEN Refused("InvalidFormat", "", consulted)
    ELSE LET ws_toml == tree[level]
             seen    == Append(consulted, level - 1)
         IN  IF ~ws_toml.exists THEN walk(level - 1, last, tree, seen)
             ELSE IF ~ws_toml.readable THEN Refused("Io", "", seen)
             ELSE IF ~ws_toml.parses THEN walk(level - 1, last, tree, seen)
             ELSE IF ws_toml.version # None
                  THEN Resolved(ws_toml.version[1], seen)
             ELSE walk(level - 1, last, tree, seen)

resolve_workspace_version(cargo_toml_path, tree) ==
    IF ~cargo_toml_path.named
    THEN Refused("InvalidFormat", "", <<>>)
    ELSE walk(Len(tree), LastParent(cargo_toml_path, tree), tree, <<>>)

\* resolve_version taking every table for the workspace marker.
resolve_version_any_table(version, cargo_toml_path, tree) ==
    IF version # None /\ version[1].type = "string"
    THEN Resolved(version[1].str, <<>>)
    ELSE IF version # None /\ version[1].type = "table"
    THEN resolve_workspace_version(cargo_toml_path, tree)
    ELSE Refused("MissingField", "package.version", <<>>)

\* resolve_version; version is package.get("version").
resolve_version(version, cargo_toml_path, tree) ==
    IF version # None /\ version[1].type = "string"
    THEN Resolved(version[1].str, <<>>)
    ELSE IF /\ version # None
            /\ version[1].type = "table"
            /\ version[1].workspace = Some(Bool(TRUE))
    THEN resolve_workspace_version(cargo_toml_path, tree)
    ELSE Refused("MissingField", "package.version", <<>>)

\* Option<&Value>::and_then(as_str), and_then(as_integer), as_bool, as_array.
as_str(value) ==
    IF value # None /\ value[1].type = "string" THEN Some(value[1].str) ELSE None

as_integer(value) ==
    IF value # None /\ value[1].type = "integer" THEN Some(value[1].int) ELSE None

as_bool(value) ==
    IF value # None /\ value[1].type = "boolean" THEN Some(value[1].int = 1)
    ELSE None

as_array(value) ==
    IF value # None /\ value[1].type = "array" THEN Some(value[1].items) ELSE None

\* Value::get on a table, Option::unwrap_or.
get(table, key) == IF key \in DOMAIN table THEN Some(table[key]) ELSE None

unwrap_or(option, default) == IF option = None THEN default ELSE option[1]

parse_compatibility(meta) ==
    IF meta.compatibility = None THEN CompatibilityInfo(<<>>)
    ELSE LET compat == meta.compatibility[1]
         IN  [api_version      |-> unwrap_or(as_integer(get(compat, "api_version")), 2),
              min_host_version |-> as_str(get(compat, "min_host_version")),
              max_host_version |-> as_str(get(compat, "max_host_version")),
              platforms        |-> unwrap_or(as_array(get(compat, "platforms")), <<>>),
              depends_on       |-> unwrap_or(as_array(get(compat, "depends_on")), <<>>)]

parse_cli(meta) ==
    IF meta.cli = None THEN None
    ELSE LET cli == meta.cli[1]
         IN  IF as_str(get(cli, "command")) = None THEN None
             ELSE Some([command     |-> as_str(get(cli, "command"))[1],
                        description |-> unwrap_or(as_str(get(cli, "description")), ""),
                        aliases     |-> unwrap_or(as_array(get(cli, "aliases")), <<>>),
                        dynamic_completions |->
                            unwrap_or(as_bool(get(cli, "dynamic_completions")), FALSE)])

RECURSIVE parse_provides_items(_, _)
parse_provides_items(items, k) ==
    IF k > Len(items) THEN <<>>
    ELSE (IF as_str(get(items[k], "id")) = None THEN <<>>
          ELSE <<[id          |-> as_str(get(items[k], "id"))[1],
                  version     |-> unwrap_or(as_str(get(items[k], "version")), "1.0.0"),
                  description |-> unwrap_or(as_str(get(items[k], "description")), "")]>>)
         \o parse_provides_items(items, k + 1)

parse_provides(meta) == parse_provides_items(meta.provides, 1)

parse_binary(meta) ==
    IF meta.binary = None THEN BinaryInfo("plugin", EmptyMap)
    ELSE BinaryInfo(unwrap_or(as_str(get(meta.binary[1], "name")), "plugin"),
                    EmptyMap)

\* A Cargo.toml: unreadable, unparseable, or a document whose package table
\* is missing or holds version, description and metadata.plugin.
CargoFile(package) == [readable |-> TRUE, parses |-> TRUE, package |-> package]

UnreadableCargoFile == [CargoFile(None) EXCEPT !.readable = FALSE, !.parses = FALSE]

UnparseableCargoFile == [CargoFile(None) EXCEPT !.parses = FALSE]

\* Result<PluginManifest, ManifestError>.
Generated(manifest) ==
    [called |-> TRUE, ok |-> TRUE, error |-> "", field |-> "", value |-> manifest]

NotGenerated ==
    [called |-> FALSE, ok |-> FALSE, error |-> "", field |-> "", value |-> None]

Failure(error, field) ==
    [called |-> TRUE, ok |-> FALSE, error |-> error, field |-> field,
     value |-> None]

\* generate_manifest_from_cargo looking for the plugin's fields before it
\* resolves the version.
generate_fields_first(file, cargo_toml_path, tree) ==
    IF ~file.readable THEN Failure("Io", "")
    ELSE IF ~file.parses THEN Failure("TomlParse", "")
    ELSE IF file.package = None THEN Failure("MissingField", "package")
    ELSE LET package == file.package[1]
             version == resolve_version(package.version, cargo_toml_path, tree)
         IN  IF package.metadata_plugin = None
             THEN Failure("MissingField", "package.metadata.plugin")
             ELSE LET metadata_plugin == package.metadata_plugin[1]
                  IN  IF as_str(metadata_plugin.id) = None
                      THEN Failure("MissingField", "package.metadata.plugin.id")
                      ELSE IF as_str(metadata_plugin.name) = None
                      THEN Failure("MissingField", "package.metadata.plugin.name")
                      ELSE IF as_str(metadata_plugin.type) = None
                      THEN Failure("MissingField", "package.metadata.plugin.type")
                      ELSE IF ~version.ok
                      THEN Failure(version.error, version.field)
                      ELSE Generated(
                        [plugin |-> [id          |-> as_str(metadata_plugin.id)[1],
                                     name        |-> as_str(metadata_plugin.name)[1],
                                     version     |-> version.value,
                                     plugin_type |-> as_str(metadata_plugin.type)[1],
                                     description |->
                                         unwrap_or(as_str(package.description), "")],
                         compatibility |-> parse_compatibility(metadata_plugin),
                         binary        |-> parse_binary(metadata_plugin),
                         provides      |-> parse_provides(metadata_plugin),
                         cli           |-> parse_cli(metadata_plugin)]
                        @@ Unpopulated)

generate_manifest_from_cargo(file, cargo_toml_path, tree) ==
    IF ~file.readable THEN Failure("Io", "")
    ELSE IF ~file.parses THEN Failure("TomlParse", "")
    ELSE IF file.package = None THEN Failure("MissingField", "package")
    ELSE LET package == file.package[1]
             version == resolve_version(package.version, cargo_toml_path, tree)
         IN  IF ~version.ok THEN Failure(version.error, version.field)
             ELSE IF package.metadata_plugin = None
             THEN Failure("MissingField", "package.metadata.plugin")
             ELSE LET metadata_plugin == package.metadata_plugin[1]
                  IN  IF as_str(metadata_plugin.id) = None
                      THEN Failure("MissingField", "package.metadata.plugin.id")
                      ELSE IF as_str(metadata_plugin.name) = None
                      THEN Failure("MissingField", "package.metadata.plugin.name")
                      ELSE IF as_str(metadata_plugin.type) = None
                      THEN Failure("MissingField", "package.metadata.plugin.type")
                      ELSE Generated(
                        [plugin |-> [id          |-> as_str(metadata_plugin.id)[1],
                                     name        |-> as_str(metadata_plugin.name)[1],
                                     version     |-> version.value,
                                     plugin_type |-> as_str(metadata_plugin.type)[1],
                                     description |->
                                         unwrap_or(as_str(package.description), "")],
                         compatibility |-> parse_compatibility(metadata_plugin),
                         binary        |-> parse_binary(metadata_plugin),
                         provides      |-> parse_provides(metadata_plugin),
                         cli           |-> parse_cli(metadata_plugin)]
                        @@ Unpopulated)

(* ------------------------------ platform ------------------------------- *)

\* The build target: what cfg!(target_os = ..) and cfg!(target_arch = ..)
\* see.  "other" stands for every target the code does not name.
TargetOs == {"macos", "linux", "windows", "other"}

TargetArch == {"aarch64", "x86_64", "x86", "other"}

Targets == [os : TargetOs, arch : TargetArch]

current_platform(t) ==
    LET os   == IF t.os = "macos" THEN "darwin"
                ELSE IF t.os = "linux" THEN "linux"
                ELSE IF t.os = "windows" THEN "windows"
                ELSE "unknown"
        arch == IF t.arch = "aarch64" THEN "aarch64"
                ELSE IF t.arch = "x86_64" THEN "x86_64"
                ELSE IF t.arch = "x86" THEN "x86"
                ELSE "unknown"
    IN  os \o "-" \o arch

\* matches_platform without the "all" wildcard.
matches_current_only(platform, t) ==
    LET current == current_platform(t)
    IN  platform = current

matches_platform(platform, t) ==
    LET current == current_platform(t)
    IN  platform = current \/ platform = "all"

\* supports_current_platform without the shortcut for the empty list.
plugin_supports_listed_only(m, t) ==
    LET current == current_platform(t)
    IN  \E k \in 1..Len(m.compatibility.platforms) :
           \/ m.compatibility.platforms[k] = current
           \/ m.compatibility.platforms[k] = "all"

\* PluginManifest::supports_current_platform.
plugin_supports_current_platform(m, t) ==
    IF m.compatibility.platforms = <<>> THEN TRUE
    ELSE LET current == current_platform(t)
         IN  \E k \in 1..Len(m.compatibility.platforms) :
                \/ m.compatibility.platforms[k] = current
                \/ m.compatibility.platforms[k] = "all"

\* PackageManifest::supports_current_platform.
package_supports_current_platform(p, t) ==
    IF p.compatibility.platforms = <<>> THEN TRUE
    ELSE LET current == current_platform(t)
         IN  \E k \in 1..Len(p.compatibility.platforms) :
                \/ p.compatibility.platforms[k] = current
                \/ p.compatibility.platforms[k] = "all"

(* ------------------------------ state ---------------------------------- *)

VARIABLES
    pkg,        \* the parsed PackageManifest
    order,      \* what install_order returned for pkg, or NotCalled
    expanded,   \* what expand_plugins returned for pkg, or NotExpanded
    target,     \* the target the crate was built for
    declared,   \* compatibility.platforms of the manifest under test
    matched,    \* what matches_platform returned, or NotMatched
    supported,  \* what supports_current_platform returned, or NotAsked
    single,     \* the PluginManifest of a Manifest::Single, or NoPlugin
    answer,     \* what a query of the Manifest returned, or NotAnswered
    text,       \* the manifest text handed to from_toml
    parsed,     \* what Manifest::from_toml(text) returned, or NotParsed
    plugin,     \* what PluginManifest::from_toml(text) returned, or NotParsed
    serialized, \* what to_toml of the parsed plugin returned, or NotParsed
    reparsed,   \* what from_toml of the serialized text returned, or NotParsed
    ancestors,  \* the Cargo.toml of each directory above, from the root down
    cargo_path, \* the path handed to generate_manifest_from_cargo
    cargo,      \* the Cargo.toml at that path
    resolved,   \* what resolve_version returned, or NotResolved
    generated,  \* what generate_manifest_from_cargo returned, or NotGenerated
    args,       \* std::env::args() of manifest-gen
    arg_index,  \* i of main's loop
    cargo_toml_path, \* main's cargo_toml_path
    output_path,     \* main's output_path
    outcome     \* how main left the loop, or StillParsing

packageVars == <<pkg, order, expanded>>

platformVars == <<target, declared, matched, supported>>

facadeVars == <<single, answer>>

textVars == <<text, parsed, plugin, serialized, reparsed>>

cargoVars == <<ancestors, cargo_path, cargo, resolved, generated>>

mainVars == <<args, arg_index, cargo_toml_path, output_path, outcome>>

toolVars == <<cargoVars, mainVars>>

vars == <<packageVars, platformVars, facadeVars, textVars, toolVars>>

NotExpanded == [called |-> FALSE, manifests |-> <<>>]

NotMatched == [called |-> FALSE, platform |-> "", result |-> FALSE]

NotAsked == [called |-> FALSE, plugin |-> FALSE, package |-> FALSE]

NoPlugin == PluginManifest("", "", None)

NotAnswered == [asked |-> "", ids |-> <<>>, cli |-> None, flag |-> FALSE]

\* The groups at rest.
PackageAtRest ==
    /\ pkg = PackageManifest("1.0.0", <<>>, <<>>)
    /\ order = NotCalled
    /\ expanded = NotExpanded

PlatformAtRest ==
    /\ target = [os |-> "linux", arch |-> "x86_64"]
    /\ declared = <<>>
    /\ matched = NotMatched
    /\ supported = NotAsked

FacadeAtRest ==
    /\ single = NoPlugin
    /\ answer = NotAnswered

TextAtRest ==
    /\ text = <<>>
    /\ parsed = NotParsed
    /\ plugin = NotParsed
    /\ serialized = NotParsed
    /\ reparsed = NotParsed

StillParsing == [status |-> "parsing", code |-> 0]

CargoAtRest ==
    /\ ancestors = <<>>
    /\ cargo_path = EmptyPath
    /\ cargo = CargoFile(None)
    /\ resolved = NotResolved
    /\ generated = NotGenerated

MainAtRest ==
    /\ args = <<>>
    /\ arg_index = 0
    /\ cargo_toml_path = None
    /\ output_path = None
    /\ outcome = StillParsing

ToolsAtRest == CargoAtRest /\ MainAtRest

\* The variables no package operation touches.
notPackageVars == <<platformVars, facadeVars, textVars, toolVars>>

NotPackageAtRest ==
    PlatformAtRest /\ FacadeAtRest /\ TextAtRest /\ ToolsAtRest

\* The variables no platform query touches.
notPlatformVars == <<packageVars, facadeVars, textVars, toolVars>>

NotPlatformAtRest ==
    PackageAtRest /\ FacadeAtRest /\ TextAtRest /\ ToolsAtRest

\* The variables no parse or serialization of a text touches.
notTextVars == <<packageVars, platformVars, facadeVars, toolVars>>

NotTextAtRest ==
    PackageAtRest /\ PlatformAtRest /\ FacadeAtRest /\ ToolsAtRest

\* The variables cargo_extract does not touch.
notCargoVars == <<packageVars, platformVars, facadeVars, textVars, mainVars>>

NotCargoAtRest ==
    PackageAtRest /\ PlatformAtRest /\ FacadeAtRest /\ TextAtRest /\ MainAtRest

\* The variables manifest-gen's argument loop does not touch.
notMainVars == <<packageVars, platformVars, facadeVars, textVars, cargoVars>>

NotMainAtRest ==
    PackageAtRest /\ PlatformAtRest /\ FacadeAtRest /\ TextAtRest /\ CargoAtRest

\* Number of depends_on entries in the manifest, over all its sections.
RECURSIVE DependsOnCount(_, _)
DependsOnCount(plugins, k) ==
    IF k > Len(plugins) THEN 0
    ELSE Len(plugins[k].depends_on) + DependsOnCount(plugins, k + 1)

DependsOnEntries(p) ==
    Len(p.compatibility.depends_on) + DependsOnCount(p.plugins, 1)

\* The package is immutable once parsed: nothing has been computed from it.
Parsing == ~order.called /\ ~expanded.called

\* A manifest with a [package] section and nothing else.
Init ==
    /\ \E version \in Versions : pkg = PackageManifest(version, <<>>, <<>>)
    /\ order = NotCalled
    /\ expanded = NotExpanded
    /\ NotPackageAtRest

\* from_toml reads one more [[plugins]] table.
ParsePluginTable ==
    /\ Parsing
    /\ Len(pkg.plugins) < MaxPlugins
    /\ \E id \in Ids :
         pkg' = [pkg EXCEPT !.plugins = Append(@, PluginDef(id, <<>>))]
    /\ UNCHANGED <<order, expanded, notPackageVars>>

\* from_toml reads one more entry of the current table's depends_on array.
ParsePluginDependsOn ==
    /\ Parsing
    /\ Len(pkg.plugins) > 0
    /\ DependsOnEntries(pkg) < MaxDependsOn
    /\ \E dep \in Ids :
         pkg' = [pkg EXCEPT
                   !.plugins[Len(pkg.plugins)].depends_on = Append(@, dep)]
    /\ UNCHANGED <<order, expanded, notPackageVars>>

\* from_toml reads one more entry of [compatibility] depends_on.
ParseCompatibilityDependsOn ==
    /\ Parsing
    /\ DependsOnEntries(pkg) < MaxDependsOn
    /\ \E dep \in Ids :
         pkg' = [pkg EXCEPT !.compatibility.depends_on = Append(@, dep)]
    /\ UNCHANGED <<order, expanded, notPackageVars>>

InstallOrder ==
    /\ ~order.called
    /\ order' = install_order(pkg)
    /\ UNCHANGED <<pkg, expanded, notPackageVars>>

ExpandPlugins ==
    /\ ~expanded.called
    /\ expanded' = [called |-> TRUE, manifests |-> expand_plugins(pkg)]
    /\ UNCHANGED <<pkg, order, notPackageVars>>

Next ==
    \/ ParsePluginTable
    \/ ParsePluginDependsOn
    \/ ParseCompatibilityDependsOn
    \/ InstallOrder
    \/ ExpandPlugins

Spec == Init /\ [][Next]_vars

(* ----------------- packages with shared sections ----------------------- *)

\* Values read from [binary.checksums], [compatibility] and [[plugins]].
ChecksumPlatforms == {"linux-x86_64", "darwin-aarch64"}

Checksums == {"sha256:abc123", "sha256:def456"}

SharedPlatforms == {"all", "linux-x86_64", "darwin-aarch64"}

Binaries == {"dark_theme", "light_theme"}

HostVersions == {"0.8.0"}

ApiVersions == {1, 3}

Flag(b) == IF b THEN 1 ELSE 0

\* Number of entries of the manifest, over all its sections.
Entries(p) ==
    Len(p.plugins) + DependsOnEntries(p)
    + Len(p.compatibility.platforms)
    + Cardinality(DOMAIN p.binary.checksums)
    + Flag(p.compatibility.api_version # default_api_version)
    + Flag(p.compatibility.min_host_version # None)
    + Flag(p.compatibility.max_host_version # None)

SharedParsing == Parsing /\ Entries(pkg) < MaxEntries

\* from_toml reads one more [[plugins]] table, binary of any name.
ParseBinaryPluginTable ==
    /\ SharedParsing
    /\ \E id \in Ids, binary \in Binaries :
         pkg' = [pkg EXCEPT !.plugins =
                   Append(@, [PluginDef(id, <<>>) EXCEPT !.binary = binary])]
    /\ UNCHANGED <<order, expanded, notPackageVars>>

\* from_toml reads one more entry of the current table's depends_on array.
ParseOverridingDependsOn ==
    /\ SharedParsing
    /\ ParsePluginDependsOn

\* from_toml reads one more entry of [compatibility] depends_on.
ParseSharedDependsOn ==
    /\ SharedParsing
    /\ ParseCompatibilityDependsOn

\* from_toml reads one more entry of [compatibility] platforms.
ParsePlatform ==
    /\ SharedParsing
    /\ \E platform \in SharedPlatforms :
         pkg' = [pkg EXCEPT !.compatibility.platforms = Append(@, platform)]
    /\ UNCHANGED <<order, expanded, notPackageVars>>

\* from_toml reads one more key of [binary.checksums]; a table holds a key
\* once.
ParseChecksum ==
    /\ SharedParsing
    /\ \E platform \in ChecksumPlatforms \ DOMAIN pkg.binary.checksums,
          checksum \in Checksums :
         pkg' = [pkg EXCEPT !.binary.checksums = (platform :> checksum) @@ @]
    /\ UNCHANGED <<order, expanded, notPackageVars>>

\* from_toml reads [compatibility] api_version.
ParseApiVersion ==
    /\ SharedParsing
    /\ pkg.compatibility.api_version = default_api_version
    /\ \E v \in ApiVersions :
         pkg' = [pkg EXCEPT !.compatibility.api_version = v]
    /\ UNCHANGED <<order, expanded, notPackageVars>>

\* from_toml reads [compatibility] min_host_version.
ParseMinHostVersion ==
    /\ SharedParsing
    /\ pkg.compatibility.min_host_version = None
    /\ \E v \in HostVersions :
         pkg' = [pkg EXCEPT !.compatibility.min_host_version = Some(v)]
    /\ UNCHANGED <<order, expanded, notPackageVars>>

\* from_toml reads [compatibility] max_host_version.
ParseMaxHostVersion ==
    /\ SharedParsing
    /\ pkg.compatibility.max_host_version = None
    /\ \E v \in HostVersions :
         pkg' = [pkg EXCEPT !.compatibility.max_host_version = Some(v)]
    /\ UNCHANGED <<order, expanded, notPackageVars>>

SharedNext ==
    \/ ParseBinaryPluginTable
    \/ ParseOverridingDependsOn
    \/ ParseSharedDependsOn
    \/ ParsePlatform
    \/ ParseChecksum
    \/ ParseApiVersion
    \/ ParseMinHostVersion
    \/ ParseMaxHostVersion
    \/ ExpandPlugins

SpecShared == Init /\ [][SharedNext]_vars

(* --------------------------- facade queries ---------------------------- *)

Commands == {"tasks"}

Aliases == {<<>>, <<"t">>}

\* The single-plugin manifests a Manifest::Single may hold.
Singles ==
    { PluginManifest(id, version, cli) :
        id \in Ids, version \in Versions,
        cli \in {None} \cup { Some(CliConfig(command, aliases)) :
                                command \in Commands, aliases \in Aliases } }

IsSingle == single # NoPlugin

\* The Manifest the queries are asked of.
TheManifest == IF IsSingle THEN Single(single) ELSE Package(pkg)

\* Manifest::from_toml returned a Manifest::Single, or started to read a
\* package.
FacadeInit ==
    /\ PlatformAtRest
    /\ TextAtRest
    /\ ToolsAtRest
    /\ order = NotCalled
    /\ expanded = NotExpanded
    /\ answer = NotAnswered
    /\ \/ /\ single = NoPlugin
          /\ \E version \in Versions :
               pkg = PackageManifest(version, <<>>, <<>>)
       \/ /\ single \in Singles
          /\ pkg = PackageManifest("1.0.0", <<>>, <<>>)

Reading == ~IsSingle /\ answer = NotAnswered

\* from_toml reads one more [[plugins]] table of the package.
ReadPluginTable ==
    /\ Reading
    /\ ParsePluginTable

\* from_toml reads one more depends_on entry of the package.
ReadPluginDependsOn ==
    /\ Reading
    /\ ParsePluginDependsOn

AskPluginIds ==
    /\ answer = NotAnswered
    /\ answer' = [NotAnswered EXCEPT !.asked = "plugin_ids",
                                     !.ids = plugin_ids(TheManifest)]
    /\ UNCHANGED <<packageVars, platformVars, textVars, toolVars, single>>

AskCliConfig ==
    /\ answer = NotAnswered
    /\ answer' = [NotAnswered EXCEPT !.asked = "cli_config",
                                     !.cli = cli_config(TheManifest)]
    /\ UNCHANGED <<packageVars, platformVars, textVars, toolVars, single>>

AskIsPackage ==
    /\ answer = NotAnswered
    /\ answer' = [NotAnswered EXCEPT !.asked = "is_package",
                                     !.flag = is_package(TheManifest)]
    /\ UNCHANGED <<packageVars, platformVars, textVars, toolVars, single>>

FacadeNext ==
    \/ ReadPluginTable
    \/ ReadPluginDependsOn
    \/ AskPluginIds
    \/ AskCliConfig
    \/ AskIsPackage

SpecFacade == FacadeInit /\ [][FacadeNext]_vars

(* ------------------------------ texts ---------------------------------- *)

TextIds == {"adi.tasks", "adi.embed"}

\* The keys a [plugin] section may give: all four, all but one, or none.
PluginKeySets ==
    { keys \in SUBSET {"id", "name", "version", "type"} :
        Cardinality(keys) >= 3 } \cup {{}}

KeyLines(keys, lines) ==
    SelectSeq(lines, LAMBDA line : line.name \in keys)

PluginSection(id, padded, keys) ==
    <<TableHeader("plugin", padded)>>
    \o KeyLines(keys, <<KeyValue("id", Str(id)),
                        KeyValue("name", Str("ADI")),
                        KeyValue("version", Str("0.8.8")),
                        KeyValue("type", Str("core"))>>)

PluginSections ==
    {<<>>} \cup { PluginSection(id, padded, keys) :
                    id \in TextIds, padded \in BOOLEAN, keys \in PluginKeySets }

PackageSection(padded) ==
    <<TableHeader("package", padded),
      KeyValue("id", Str("vendor.theme-pack")),
      KeyValue("name", Str("Theme Pack")),
      KeyValue("version", Str("2.0.0"))>>

PackageSections == {<<>>} \cup { PackageSection(padded) : padded \in BOOLEAN }

PluginsTables ==
    {<<>>,
     <<ArrayHeader("plugins"),
       KeyValue("id", Str("vendor.theme-dark")),
       KeyValue("name", Str("Dark Theme")),
       KeyValue("type", Str("theme")),
       KeyValue("binary", Str("dark_theme"))>>}

CompatibilitySections ==
    {<<>>,
     <<TableHeader("compatibility", FALSE)>>,
     <<TableHeader("compatibility", FALSE), KeyValue("api_version", Num(3))>>}

BinarySections ==
    {<<>>,
     <<TableHeader("binary", FALSE)>>,
     <<TableHeader("binary", FALSE), KeyValue("name", Str("tasks_plugin"))>>}

CliSections ==
    {<<>>,
     <<TableHeader("cli", FALSE),
       KeyValue("command", Str("tasks")),
       KeyValue("description", Str("Task management")),
       KeyValue("aliases", Arr(<<"t">>))>>,
     <<TableHeader("cli", FALSE), KeyValue("command", Str("tasks"))>>}

ProvidesTable(k) ==
    <<ArrayHeader("provides"),
      KeyValue("id", Str("adi.tasks.cli")),
      KeyValue("version", Str(Digits[k + 1] \o ".0.0"))>>

RECURSIVE ProvidesTables(_)
ProvidesTables(n) ==
    IF n = 0 THEN <<>> ELSE ProvidesTables(n - 1) \o ProvidesTable(n)

\* A comment may quote a section header.
Comments == {<<>>, <<Comment("[package]")>>, <<Comment("[plugin]")>>}

Texts ==
    { comment \o plugin_section \o package_section \o compatibility
        \o binary \o cli \o ProvidesTables(provides) \o plugins :
        comment \in Comments,
        plugin_section \in PluginSections,
        package_section \in PackageSections,
        compatibility \in CompatibilitySections,
        binary \in BinarySections,
        cli \in CliSections,
        provides \in 0..MaxProvides,
        plugins \in PluginsTables }

TextInit ==
    /\ NotTextAtRest
    /\ text \in Texts
    /\ parsed = NotParsed
    /\ plugin = NotParsed
    /\ serialized = NotParsed
    /\ reparsed = NotParsed

\* A caller hands the text to Manifest::from_toml.
ManifestFromToml ==
    /\ ~parsed.called
    /\ parsed' = Manifest_from_toml(text)
    /\ UNCHANGED <<notTextVars, text, plugin, serialized, reparsed>>

\* A caller hands the text to PluginManifest::from_toml.
PluginFromToml ==
    /\ ~plugin.called
    /\ plugin' = PluginManifest_from_toml(text)
    /\ UNCHANGED <<notTextVars, text, parsed, serialized, reparsed>>

\* The caller serializes the manifest it got.
ToToml ==
    /\ plugin.ok
    /\ ~serialized.called
    /\ serialized' = to_toml(plugin.value)
    /\ UNCHANGED <<notTextVars, text, parsed, plugin, reparsed>>

\* The caller parses what it serialized.
FromTomlAgain ==
    /\ serialized.ok
    /\ ~reparsed.called
    /\ reparsed' = PluginManifest_from_toml(serialized.value)
    /\ UNCHANGED <<notTextVars, text, parsed, plugin, serialized>>

TextNext ==
    \/ ManifestFromToml
    \/ PluginFromToml
    \/ ToToml
    \/ FromTomlAgain

SpecText == TextInit /\ [][TextNext]_vars

(* ------------------------- version resolution -------------------------- *)

WorkspaceVersions == {"1.2.3", "4.5.6"}

Descriptors ==
    {NoDescriptor, Unreadable, Unparseable, WithoutWorkspaceVersion}
        \cup { WithWorkspaceVersion(v) : v \in WorkspaceVersions }

\* The directories above, the root first.
RECURSIVE Trees(_)
Trees(depth) ==
    IF depth = 0 THEN {<<>>}
    ELSE Trees(depth - 1)
         \cup { Append(tree, d) :
                  tree \in { t \in Trees(depth - 1) : Len(t) = depth - 1 },
                  d \in Descriptors }

\* The paths by which a Cargo.toml below the tree can be named.
PathsBelow(tree) ==
    {AbsolutePath(Len(tree))} \cup { RelativePath(dirs) : dirs \in 0..Len(tree) }

\* What package.get("version") may find.
VersionValues ==
    {None, Some(VersionInteger), Some(VersionString("0.8.8")),
     Some(VersionString("")), Some(VersionTable(None))}
        \cup { Some(VersionTable(Some(w))) :
                 w \in {Bool(TRUE), Bool(FALSE), Str("true")} }

CargoPackage(version, description, metadata_plugin) ==
    [version |-> version, description |-> description,
     metadata_plugin |-> metadata_plugin]

VersionInit ==
    /\ NotCargoAtRest
    /\ ancestors \in Trees(MaxDepth)
    /\ cargo_path \in PathsBelow(ancestors)
    /\ \E version \in VersionValues :
         cargo = CargoFile(Some(CargoPackage(version, None, None)))
    /\ resolved = NotResolved
    /\ generated = NotGenerated

\* generate_manifest_from_cargo has read the file and resolves its version.
ResolveVersion ==
    /\ ~resolved.called
    /\ resolved' = resolve_version(cargo.package[1].version, cargo_path,
                                   ancestors)
    /\ UNCHANGED <<notCargoVars, ancestors, cargo_path, cargo, generated>>

VersionNext == ResolveVersion

SpecVersion == VersionInit /\ [][VersionNext]_vars

(* ------------------------- manifest generation ------------------------- *)

\* The tables a [package.metadata.plugin.compatibility], .cli and .binary
\* section may hold, and the entries of [[package.metadata.plugin.provides]].
CompatibilityTables == {EmptyMap, [api_version |-> Num(3)]}

CliTables == {[command |-> Str("run")], [description |-> Str("runs")]}

BinaryTables == {EmptyMap, [name |-> Str("libdemo")]}

ProvidesEntries == {[id |-> Str("svc")], [version |-> Str("2.0.0")]}

Optional(values) == {None} \cup { Some(v) : v \in values }

RECURSIVE ProvidesLists(_)
ProvidesLists(len) ==
    IF len = 0 THEN {<<>>}
    ELSE ProvidesLists(len - 1)
         \cup { Append(items, item) :
                  items \in { l \in ProvidesLists(len - 1) : Len(l) = len - 1 },
                  item \in ProvidesEntries }

\* The tables [package.metadata.plugin] may be.
MetadataPlugins ==
    [id            : Optional({Str("demo"), Num(7)}),
     name          : Optional({Str("Demo")}),
     type          : Optional({Str("core")}),
     compatibility : Optional(CompatibilityTables),
     cli           : Optional(CliTables),
     binary        : Optional(BinaryTables),
     provides      : ProvidesLists(MaxProvides)]

WorkspaceMarker == Some(VersionTable(Some(Bool(TRUE))))

CargoPackages ==
    { CargoPackage(version, description, metadata_plugin) :
        version \in {None, Some(VersionString("0.8.8")), WorkspaceMarker},
        description \in Optional({Str("a demo")}),
        metadata_plugin \in Optional(MetadataPlugins) }

CargoFiles ==
    {UnreadableCargoFile, UnparseableCargoFile}
        \cup { CargoFile(package) : package \in Optional(CargoPackages) }

\* Only a workspace marker sends the generator to the directories above.
InheritsVersion(file) ==
    file.package # None /\ file.package[1].version = WorkspaceMarker

CargoInit ==
    /\ NotCargoAtRest
    /\ cargo \in CargoFiles
    /\ ancestors \in IF InheritsVersion(cargo) THEN Trees(1) ELSE {<<>>}
    /\ cargo_path \in IF InheritsVersion(cargo) THEN PathsBelow(ancestors)
                      ELSE {AbsolutePath(0)}
    /\ resolved = NotResolved
    /\ generated = NotGenerated

\* generate_manifest_from_cargo(cargo_toml_path), resolve_version within it.
GenerateManifestFromCargo ==
    /\ ~generated.called
    /\ generated' = generate_manifest_from_cargo(cargo, cargo_path, ancestors)
    /\ resolved' = IF cargo.readable /\ cargo.parses /\ cargo.package # None
                   THEN resolve_version(cargo.package[1].version, cargo_path,
                                        ancestors)
                   ELSE resolved
    /\ UNCHANGED <<notCargoVars, ancestors, cargo_path, cargo>>

CargoNext == GenerateManifestFromCargo

SpecCargo == CargoInit /\ [][CargoNext]_vars

(* ------------------------- manifest-gen arguments ---------------------- *)

\* How main ends: std::process::exit(code), the panic of an index out of
\* bounds, or the call of generate_manifest_from_cargo with the chosen path.
Exit(code) == [status |-> "exit", code |-> code]

Panicked == [status |-> "panic", code |-> 101]

CallsGenerator == [status |-> "generate", code |-> 0]

ArgumentWords ==
    {"--cargo-toml", "--output", "-o", "--help", "-h", "Cargo.toml", "out.toml"}

\* The argument vectors of so many arguments after the program's name.
RECURSIVE ArgumentVectors(_)
ArgumentVectors(len) ==
    IF len = 0 THEN {<<"manifest-gen">>}
    ELSE ArgumentVectors(len - 1)
         \cup { Append(v, word) :
                  v \in { u \in ArgumentVectors(len - 1) : Len(u) = len },
                  word \in ArgumentWords }

\* args[i] of the code, whose indices start at 0.
Argument(k) == args[k + 1]

MainInit ==
    /\ NotMainAtRest
    /\ args \in ArgumentVectors(MaxArgs)
    /\ arg_index = 1
    /\ cargo_toml_path = None
    /\ output_path = None
    /\ outcome = StillParsing

InLoop == outcome = StillParsing /\ arg_index < Len(args)

\* "--cargo-toml" => { i += 1; cargo_toml_path = Some(args[i]) }; i += 1.
CargoTomlOption ==
    /\ InLoop
    /\ Argument(arg_index) = "--cargo-toml"
    /\ IF arg_index + 1 < Len(args)
       THEN /\ cargo_toml_path' = Some(Argument(arg_index + 1))
            /\ arg_index' = arg_index + 2
            /\ UNCHANGED outcome
       ELSE /\ outcome' = Panicked
            /\ arg_index' = arg_index + 1
            /\ UNCHANGED cargo_toml_path
    /\ UNCHANGED <<notMainVars, args, output_path>>

\* "--output" | "-o" => { i += 1; output_path = Some(args[i]) }; i += 1.
OutputOption ==
    /\ InLoop
    /\ Argument(arg_index) \in {"--output", "-o"}
    /\ IF arg_index + 1 < Len(args)
       THEN /\ output_path' = Some(Argument(arg_index + 1))
            /\ arg_index' = arg_index + 2
            /\ UNCHANGED outcome
       ELSE /\ outcome' = Panicked
            /\ arg_index' = arg_index + 1
            /\ UNCHANGED output_path
    /\ UNCHANGED <<notMainVars, args, cargo_toml_path>>

\* "--help" | "-h" => { usage; exit(0) }.
HelpOption ==
    /\ InLoop
    /\ Argument(arg_index) \in {"--help", "-h"}
    /\ outcome' = Exit(0)
    /\ UNCHANGED <<notMainVars, args, arg_index, cargo_toml_path, output_path>>

\* other => the first positional is the path, a further one an error.
Positional ==
    /\ InLoop
    /\ Argument(arg_index) \notin {"--cargo-toml", "--output", "-o", "--help", "-h"}
    /\ IF cargo_toml_path = None
       THEN /\ cargo_toml_path' = Some(Argument(arg_index))
            /\ arg_index' = arg_index + 1
            /\ UNCHANGED outcome
       ELSE /\ outcome' = Exit(1)
            /\ UNCHANGED <<arg_index, cargo_toml_path>>
    /\ UNCHANGED <<notMainVars, args, output_path>>

\* After the loop: the path is required and its file has to exist.
EndOfArguments ==
    /\ outcome = StillParsing
    /\ arg_index >= Len(args)
    /\ \E exists \in BOOLEAN :
         outcome' = IF cargo_toml_path = None \/ ~exists THEN Exit(1)
                    ELSE CallsGenerator
    /\ UNCHANGED <<notMainVars, args, arg_index, cargo_toml_path, output_path>>

MainNext ==
    \/ CargoTomlOption
    \/ OutputOption
    \/ HelpOption
    \/ Positional
    \/ EndOfArguments

SpecMain == MainInit /\ [][MainNext]_vars

(* ------------------------- platform queries ---------------------------- *)

\* Strings a manifest may declare as a platform: the name of every target,
\* the wildcard, and names no target has.
PlatformNames ==
    { current_platform(t) : t \in Targets }
        \cup {"all", "ALL", "linux", "definitely-not-a-real-platform"}

\* A manifest whose compatibility.platforms is the given list.
WithPlatforms(platforms) ==
    [compatibility |-> [CompatibilityInfo(<<>>) EXCEPT !.platforms = platforms]]

PlatformInit ==
    /\ NotPlatformAtRest
    /\ target \in Targets
    /\ declared = <<>>
    /\ matched = NotMatched
    /\ supported = NotAsked

\* from_toml reads one more entry of [compatibility] platforms.
DeclarePlatform ==
    /\ ~matched.called /\ ~supported.called
    /\ Len(declared) < MaxPlatforms
    /\ \E platform \in PlatformNames : declared' = Append(declared, platform)
    /\ UNCHANGED <<notPlatformVars, target, matched, supported>>

\* A caller asks matches_platform(platform).
MatchesPlatform ==
    /\ ~matched.called /\ declared = <<>>
    /\ \E platform \in PlatformNames :
         matched' = [called   |-> TRUE,
                     platform |-> platform,
                     result   |-> matches_platform(platform, target)]
    /\ UNCHANGED <<notPlatformVars, target, declared, supported>>

\* A caller asks supports_current_platform() of the plugin manifest and of
\* the package manifest that declare the list.
SupportsCurrentPlatform ==
    /\ ~matched.called /\ ~supported.called
    /\ supported' =
         [called  |-> TRUE,
          plugin  |-> plugin_supports_current_platform(
                          WithPlatforms(declared), target),
          package |-> package_supports_current_platform(
                          WithPlatforms(declared), target)]
    /\ UNCHANGED <<notPlatformVars, target, declared, matched>>

PlatformNext ==
    \/ DeclarePlatform
    \/ MatchesPlatform
    \/ SupportsCurrentPlatform

SpecPlatform == PlatformInit /\ [][PlatformNext]_vars

(* --------------------- vocabulary of the properties -------------------- *)

Range(s) == { s[k] : k \in 1..Len(s) }

\* The declared PluginDefs, by position in plugins.
Declared == 1..Len(pkg.plugins)

DeclaredIds == MapKeys(pkg.plugins)

DistinctIds ==
    \A i, j \in Declared : pkg.plugins[i].id = pkg.plugins[j].id => i = j

\* x depends on y: a declared plugin with id x lists y, and y is declared.
DependsOn(p, x, y) ==
    /\ y \in MapKeys(p.plugins)
    /\ \E i \in 1..Len(p.plugins) :
         p.plugins[i].id = x /\ y \in Range(p.plugins[i].depends_on)

\* The ids reachable from the ids of `from` through one or more edges.
RECURSIVE ReachableFrom(_, _, _)
ReachableFrom(p, from, seen) ==
    LET next == { y \in MapKeys(p.plugins) :
                    \E x \in from : DependsOn(p, x, y) } \ seen
    IN  IF next = {} THEN seen
        ELSE ReachableFrom(p, next, seen \cup next)

\* The declared ids that lie on a cycle of the depends_on relation.
CycleIds(p) == { x \in MapKeys(p.plugins) : x \in ReachableFrom(p, {x}, {}) }

Returned == order.called /\ order.ok

Failed == order.called /\ ~order.ok

\* plugin i occurs in the returned list, plugin j strictly before plugin i.
Occurs(i) == \E k \in 1..Len(order.list) : order.list[k] = i

Precedes(j, i) ==
    \E kj, ki \in 1..Len(order.list) :
        order.list[kj] = j /\ order.list[ki] = i /\ kj < ki

(* ------------------------------ C1 ------------------------------------- *)

\* C1: whenever install_order returns Ok(list), for every pair of declared
\* plugins (A, B) such that B's id appears in A's depends_on, B occurs at a
\* strictly smaller index than A in the list.
C1_DependenciesPrecede ==
    Returned =>
        \A A, B \in Declared :
            pkg.plugins[B].id \in Range(pkg.plugins[A].depends_on)
                => Precedes(B, A)

\* The same statement for packages whose plugin ids are pairwise distinct.
DependenciesPrecedeWhenDistinct ==
    (Returned /\ DistinctIds) =>
        \A A, B \in Declared :
            pkg.plugins[B].id \in Range(pkg.plugins[A].depends_on)
                => Precedes(B, A)

(* ------------------------------ C2 ------------------------------------- *)

\* C2: for every package whose depends_on relation restricted to declared
\* plugin ids contains a cycle, install_order returns
\* Err(CircularDependency(_)) and never a list.
C2_CycleAlwaysFails ==
    (order.called /\ CycleIds(pkg) # {}) => ~order.ok

CycleFailsWhenDistinct ==
    (order.called /\ DistinctIds /\ CycleIds(pkg) # {}) => ~order.ok

(* ------------------------------ C3 ------------------------------------- *)

\* The package with every depends_on entry naming an undeclared id deleted.
RECURSIVE KeepDeclared(_, _)
KeepDeclared(deps, ids) ==
    IF deps = <<>> THEN <<>>
    ELSE IF Head(deps) \in ids
         THEN <<Head(deps)>> \o KeepDeclared(Tail(deps), ids)
         ELSE KeepDeclared(Tail(deps), ids)

WithoutAbsent(p) ==
    [p EXCEPT !.plugins =
        [i \in 1..Len(p.plugins) |->
            [p.plugins[i] EXCEPT
                !.depends_on = KeepDeclared(@, MapKeys(p.plugins))]]]

\* C3: a depends_on entry naming an undeclared id adds no edge and raises no
\* error: install_order returns the same outcome as on the package with all
\* such entries deleted.
C3_AbsentIdsIgnored ==
    order.called => order = install_order(WithoutAbsent(pkg))

(* ------------------------------ C4 ------------------------------------- *)

\* C4: whenever install_order returns Err(CircularDependency(id)), id is a
\* declared plugin id lying on a cycle of the depends_on relation among
\* declared plugins; a package with no such cycle always gets Ok.
C4_ErrorNamesCycleMember ==
    /\ Failed => order.id \in CycleIds(pkg)
    /\ (order.called /\ CycleIds(pkg) = {}) => order.ok

(* ------------------------------ C5 ------------------------------------- *)

\* C5: for a package whose plugin ids are pairwise distinct, every Ok result
\* of install_order is a permutation of the declared plugins: it has the
\* same length and contains each declared PluginDef exactly once.
C5_OkIsPermutation ==
    (Returned /\ DistinctIds) =>
        /\ Len(order.list) = Len(pkg.plugins)
        /\ \A i \in Declared :
             Cardinality({ k \in 1..Len(order.list) : order.list[k] = i }) = 1

\* Three distinct plugins, one of them a dependency of the two others, were
\* ordered, and not in declaration order.
C5_Witness ==
    /\ Returned /\ DistinctIds
    /\ Len(pkg.plugins) >= 3
    /\ \E i, j, d \in Declared :
         /\ i # j /\ i # d /\ j # d
         /\ pkg.plugins[d].id \in Range(pkg.plugins[i].depends_on)
         /\ pkg.plugins[d].id \in Range(pkg.plugins[j].depends_on)
    /\ order.list # [i \in Declared |-> i]

(* ------------------------------ C6 ------------------------------------- *)

\* The reference depth-first post-order over the declared plugins: roots in
\* declaration order, dependencies in depends_on order, an undeclared id is
\* no edge, a plugin is appended once all its dependencies are.
FirstWithId(p, id) ==
    CHOOSE i \in 1..Len(p.plugins) :
        /\ p.plugins[i].id = id
        /\ \A j \in 1..Len(p.plugins) : p.plugins[j].id = id => i <= j

RECURSIVE RefVisit(_, _, _)
RECURSIVE RefVisitDeps(_, _, _, _)

RefVisitDeps(p, deps, k, st) ==
    IF k > Len(deps) \/ st.failed THEN st
    ELSE IF deps[k] \notin MapKeys(p.plugins)
         THEN RefVisitDeps(p, deps, k + 1, st)
         ELSE RefVisitDeps(p, deps, k + 1,
                           RefVisit(p, FirstWithId(p, deps[k]), st))

RefVisit(p, i, st) ==
    IF i \in st.done THEN st
    ELSE IF i \in st.open
    THEN [st EXCEPT !.failed = TRUE, !.id = p.plugins[i].id]
    ELSE LET after == RefVisitDeps(p, p.plugins[i].depends_on, 1,
                                   [st EXCEPT !.open = @ \cup {i}])
         IN  IF after.failed THEN after
             ELSE [after EXCEPT !.open = @ \ {i},
                                !.done = @ \cup {i},
                                !.result = Append(@, i)]

RECURSIVE RefVisitRoots(_, _, _)
RefVisitRoots(p, k, st) ==
    IF k > Len(p.plugins) \/ st.failed THEN st
    ELSE RefVisitRoots(p, k + 1, RefVisit(p, k, st))

RefInstallOrder(p) ==
    LET st == RefVisitRoots(p, 1, [result |-> <<>>, done |-> {}, open |-> {},
                                   failed |-> FALSE, id |-> ""])
    IN  IF st.failed THEN CircularDependency(st.id) ELSE Ok(st.result)

NoDependsOn == \A i \in Declared : pkg.plugins[i].depends_on = <<>>

\* C6: install_order equals the reference depth-first post-order; in
\* particular, when no plugin has any depends_on entry the result equals the
\* declaration order.
C6_EqualsReferencePostOrder ==
    order.called =>
        /\ order = RefInstallOrder(pkg)
        /\ NoDependsOn => order = Ok([i \in Declared |-> i])

\* No undeclared id is named more than once over all depends_on lists.
NoAbsentIdTwice ==
    \A x \in Ids \ DeclaredIds :
        Cardinality({ <<i, k>> \in Declared \X (1..MaxDependsOn) :
                        /\ k <= Len(pkg.plugins[i].depends_on)
                        /\ pkg.plugins[i].depends_on[k] = x }) <= 1

\* The same statement away from repeated undeclared ids and shared ids.
ReferencePostOrderOtherwise ==
    (order.called /\ DistinctIds /\ NoAbsentIdTwice) =>
        order = RefInstallOrder(pkg)

(* ------------------------------ C7 ------------------------------------- *)

Expanded == expanded.called

\* C7: expand_plugins is total and order-preserving: it returns exactly one
\* PluginManifest per declared PluginDef, in declaration order, the i-th
\* manifest's plugin.id being the i-th PluginDef's id; it succeeds even when
\* install_order fails on the same package.
C7_ExpandTotalOrderPreserving ==
    /\ ~Expanded => ENABLED ExpandPlugins
    /\ Expanded =>
         /\ Len(expanded.manifests) = Len(pkg.plugins)
         /\ \A i \in Declared :
              expanded.manifests[i].plugin.id = pkg.plugins[i].id

\* A package of plugins with different ids on which install_order failed
\* was expanded.
C7_Witness ==
    /\ Expanded /\ Failed
    /\ \E i, j \in Declared : pkg.plugins[i].id # pkg.plugins[j].id

(* ------------------------------ C8 ------------------------------------- *)

\* C8: every manifest produced by expand_plugins has plugin.version equal to
\* the package's package.version.
C8_VersionInherited ==
    Expanded =>
        \A i \in 1..Len(expanded.manifests) :
            expanded.manifests[i].plugin.version = pkg.package.version

\* A package of several plugins was expanded.
C8_Witness ==
    /\ Expanded
    /\ Len(expanded.manifests) >= 2
    /\ pkg.package.version = "2.0.0"

(* ------------------------------ C9 ------------------------------------- *)

\* C9: every manifest produced by expand_plugins has cli absent and
\* capabilities empty, and tags, hive, translation, language and
\* requirements all absent, whatever the package contains.
C9_SinglePluginSectionsAbsent ==
    Expanded =>
        \A i \in 1..Len(expanded.manifests) :
            LET m == expanded.manifests[i]
            IN  /\ m.cli = None
                /\ m.capabilities = <<>>
                /\ m.tags = None
                /\ m.hive = None
                /\ m.translation = None
                /\ m.language = None
                /\ m.requirements = None

\* A package with shared and plugin-level dependencies was expanded.
C9_Witness ==
    /\ Expanded
    /\ Len(expanded.manifests) >= 2
    /\ pkg.compatibility.depends_on # <<>>
    /\ \E i \in Declared : pkg.plugins[i].depends_on # <<>>

(* ------------------------------ C10 ------------------------------------ *)

C11_ChecksumsCopiedBinaryNamed ==
    Expanded =>
        /\ Len(expanded.manifests) = Len(pkg.plugins)
        /\ \A i \in Declared :
             LET m == expanded.manifests[i]
             IN  /\ DOMAIN m.binary.checksums = DOMAIN pkg.binary.checksums
                 /\ \A platform \in DOMAIN pkg.binary.checksums :
                      m.binary.checksums[platform]
                        = pkg.binary.checksums[platform]
                 /\ m.binary.name = pkg.plugins[i].binary

\* Two plugins of different binaries expanded from a package with two
\* checksums.
C11_Witness ==
    /\ Expanded
    /\ Cardinality(DOMAIN pkg.binary.checksums) = 2
    /\ \E i, j \in Declared : pkg.plugins[i].binary # pkg.plugins[j].binary

(* ------------------------------ C12 ------------------------------------ *)

\* C12: every expanded manifest carries the package's api_version,
\* min_host_version, max_host_version and platforms, so that on every target
\* supports_current_platform answers on it as it answers on the package.
C12_SharedCompatibilityVerbatim ==
    Expanded =>
        \A i \in Declared :
            LET m == expanded.manifests[i]
            IN  /\ m.compatibility.api_version = pkg.compatibility.api_version
                /\ m.compatibility.min_host_version
                     = pkg.compatibility.min_host_version
                /\ m.compatibility.max_host_version
                     = pkg.compatibility.max_host_version
                /\ m.compatibility.platforms = pkg.compatibility.platforms
                /\ \A t \in Targets :
                     plugin_supports_current_platform(m, t)
                       = package_supports_current_platform(pkg, t)

\* A plugin overriding depends_on expanded from a package that restricts
\* its platforms and sets api_version: some targets are supported, some not.
C12_Witness ==
    /\ Expanded
    /\ pkg.compatibility.api_version # default_api_version
    /\ \E i \in Declared : pkg.plugins[i].depends_on # <<>>
    /\ \E t \in Targets : package_supports_current_platform(pkg, t)
    /\ \E t \in Targets : ~package_supports_current_platform(pkg, t)

(* ------------------------------ C16 ------------------------------------ *)

\* C16: matches_platform(declared) is true if and only if declared equals
\* current_platform() or declared equals "all"; it is true for "all" and for
\* the current platform, and false for any other string.
C16_MatchesCurrentOrAll ==
    matched.called =>
        /\ matched.result
             <=> (\/ matched.platform = current_platform(target)
                  \/ matched.platform = "all")
        /\ matched.platform = "all" => matched.result
        /\ matched.platform = "definitely-not-a-real-platform"
             => ~matched.result
        /\ (\E t \in Targets \ {target} :
              /\ current_platform(t) # current_platform(target)
              /\ matched.platform = current_platform(t))
             => ~matched.result

\* matches_platform asked with the wildcard on a target the code names.
C16_Witness ==
    /\ matched.called
    /\ matched.platform = "all"
    /\ matched.result
    /\ target = [os |-> "macos", arch |-> "aarch64"]

(* ------------------------------ C17 ------------------------------------ *)

\* C17: supports_current_platform, on a plugin manifest and on a package
\* manifest alike, is true if and only if the declared platforms list is
\* empty or some entry of it equals the current platform or "all".
C17_SupportsIffEmptyOrMatch ==
    supported.called =>
        LET expected ==
              \/ declared = <<>>
              \/ \E k \in 1..Len(declared) :
                    matches_platform(declared[k], target)
        IN  /\ supported.plugin <=> expected
            /\ supported.package <=> expected

\* A list whose second entry alone names the current platform.
C17_Witness ==
    /\ supported.called
    /\ Len(declared) = 2
    /\ ~matches_platform(declared[1], target)
    /\ declared[2] = current_platform(target)
    /\ supported.plugin /\ supported.package

(* ----------------------- vocabulary of the texts ----------------------- *)

\* What a reader of TOML sees in the text, header by header.
IsHeader(line) == line.kind = "table" \/ line.kind = "array"

\* The header line a line stands under; 0 before the first header.
HeaderOf(content, k) ==
    LET above == { j \in 1..k : IsHeader(content[j]) }
    IN  IF above = {} THEN 0
        ELSE CHOOSE j \in above : \A i \in above : i <= j

HasSection(content, name) ==
    \E k \in 1..Len(content) :
        content[k].kind = "table" /\ content[k].name = name

HasArray(content, name) ==
    \E k \in 1..Len(content) :
        content[k].kind = "array" /\ content[k].name = name

\* The keys that stand under the header at line j.
KeysUnder(content, j) ==
    { content[k].name :
        k \in { i \in 1..Len(content) :
                  content[i].kind = "key" /\ HeaderOf(content, i) = j } }

\* The keys of the root section of the name; none when there is no such
\* section.
SectionKeys(content, name) ==
    UNION { KeysUnder(content, j) :
              j \in { i \in 1..Len(content) :
                        content[i].kind = "table" /\ content[i].name = name } }

\* Every table of the array gives the keys.
ArrayGives(content, name, keys) ==
    \A j \in 1..Len(content) :
        (content[j].kind = "array" /\ content[j].name = name)
            => keys \subseteq KeysUnder(content, j)

MandatoryPluginFields == {"id", "name", "version", "type"}

\* The text is a single-plugin manifest with every field that has no default.
PluginTextComplete(content) ==
    /\ MandatoryPluginFields \subseteq SectionKeys(content, "plugin")
    /\ HasSection(content, "cli")
         => {"command", "description"} \subseteq SectionKeys(content, "cli")
    /\ ArrayGives(content, "provides", {"id", "version"})

\* The text is a package manifest with every field that has no default.
PackageTextComplete(content) ==
    /\ {"id", "name", "version"} \subseteq SectionKeys(content, "package")
    /\ HasArray(content, "plugins")
    /\ ArrayGives(content, "plugins", {"id", "name", "type", "binary"})

Variant(result) == IF result.ok THEN result.value.variant ELSE "none"

(* ------------------------------ C13 ------------------------------------ *)

\* C13 as stated: from_toml detects the variant from the document's root
\* sections: a package root section with a plugins array yields Package,
\* only a plugin root section yields Single, neither fails with
\* InvalidFormat.
C13_DetectsByRootSections ==
    parsed.called =>
        /\ PackageTextComplete(text) => Variant(parsed) = "Package"
        /\ (/\ PluginTextComplete(text)
            /\ ~HasSection(text, "package")) => Variant(parsed) = "Single"
        /\ (/\ ~HasSection(text, "package")
            /\ ~HasSection(text, "plugin"))
             => ~parsed.ok /\ parsed.error = "InvalidFormat"

\* C13 amended: from_toml detects the variant from the literal markers in
\* the raw text.  A text that contains "[package]" is read as a package:
\* Package when it is a complete package manifest, TomlParse otherwise.  A
\* text that does not, and contains "[plugin]", is read as a single plugin:
\* Single when complete, TomlParse otherwise.  A text that contains neither
\* literal fails with InvalidFormat, whatever its root sections.
C13_DetectsByLiteralMarkers ==
    parsed.called =>
        IF Contains(text, "[package]")
        THEN IF PackageTextComplete(text)
             THEN Variant(parsed) = "Package"
             ELSE ~parsed.ok /\ parsed.error = "TomlParse"
        ELSE IF Contains(text, "[plugin]")
        THEN IF PluginTextComplete(text)
             THEN Variant(parsed) = "Single"
             ELSE ~parsed.ok /\ parsed.error = "TomlParse"
        ELSE ~parsed.ok /\ parsed.error = "InvalidFormat"

\* A complete package manifest whose header is written [ package ] and
\* which nowhere contains a literal marker.
C13_Witness ==
    /\ parsed.called
    /\ PackageTextComplete(text)
    /\ ~Contains(text, "[package]") /\ ~Contains(text, "[plugin]")
    /\ parsed.error = "InvalidFormat"

(* ------------------------------ C18 ------------------------------------ *)

C19_DefaultsApplied ==
    plugin.called =>
        /\ (/\ Len(text) = 5
            /\ SectionKeys(text, "plugin") = MandatoryPluginFields)
             => plugin.ok
        /\ plugin.ok =>
             /\ "api_version" \notin SectionKeys(text, "compatibility")
                  => plugin.value.compatibility.api_version = 2
             /\ "name" \notin SectionKeys(text, "binary")
                  => plugin.value.binary.name = "plugin"
             /\ ~HasArray(text, "provides") => plugin.value.provides = <<>>
             /\ ~HasSection(text, "cli") => plugin.value.cli = None

\* A parsed text whose compatibility and binary sections are both present
\* and empty.
C19_Witness ==
    /\ plugin.ok
    /\ HasSection(text, "compatibility")
    /\ SectionKeys(text, "compatibility") = {}
    /\ HasSection(text, "binary")
    /\ SectionKeys(text, "binary") = {}

(* ------------------------------ C20 ------------------------------------ *)

C14_PluginIdsDeclaredOrder ==
    answer.asked = "plugin_ids" =>
        IF IsSingle
        THEN answer.ids = <<single.plugin.id>>
        ELSE /\ Len(answer.ids) = Len(pkg.plugins)
             /\ \A i \in Declared : answer.ids[i] = pkg.plugins[i].id

\* The ids of a package whose dependencies are cyclic, and whose first
\* plugin depends on its second.
C14_Witness ==
    /\ answer.asked = "plugin_ids"
    /\ ~IsSingle
    /\ Len(pkg.plugins) >= 2
    /\ pkg.plugins[2].id \in Range(pkg.plugins[1].depends_on)
    /\ ~install_order(pkg).ok

(* ------------------------------ C15 ------------------------------------ *)

\* C15: cli_config returns None for every Package variant, and for a Single
\* variant the plugin's CLI config exactly when the manifest has one;
\* is_package is true exactly for the Package variant.
C15_CliOnlyForSingle ==
    /\ answer.asked = "cli_config" =>
         IF IsSingle THEN answer.cli = single.cli ELSE answer.cli = None
    /\ answer.asked = "is_package" => (answer.flag <=> ~IsSingle)

\* cli_config asked of a package that declares plugins.
C15_Witness ==
    /\ answer.asked = "cli_config"
    /\ ~IsSingle
    /\ pkg.plugins # <<>>
    /\ answer.cli = None

(* ------------------------------ C25 ------------------------------------ *)

\* C25: when both the package marker and the plugin marker occur in the text
\* given to Manifest::from_toml, the text is parsed only as a package
\* manifest: the result is the Package variant or the package parser's
\* error, never the Single variant, however complete the plugin section is.
C25_PackageMarkerFirst ==
    (/\ parsed.called
     /\ Contains(text, "[package]")
     /\ Contains(text, "[plugin]")) =>
        /\ Variant(parsed) # "Single"
        /\ PackageTextComplete(text) => Variant(parsed) = "Package"
        /\ ~PackageTextComplete(text)
             => ~parsed.ok /\ parsed.error = "TomlParse"

\* A complete single-plugin manifest that also has a [package] section
\* without a plugins array: the package parser's error is what comes back.
C25_Witness ==
    /\ parsed.called
    /\ HasSection(text, "package") /\ Contains(text, "[package]")
    /\ HasSection(text, "plugin") /\ Contains(text, "[plugin]")
    /\ PluginTextComplete(text)
    /\ ~HasArray(text, "plugins")
    /\ parsed.error = "TomlParse"

(* ------------------------------ C26 ------------------------------------ *)

\* C26: expand_plugins and install_order agree on dependencies: when
\* install_order succeeds, for every expanded manifest E and every id d in
\* E.compatibility.depends_on that a plugin of the package carries, the
\* plugin d precedes the plugin of E in the install order, also when E took
\* its depends_on from the package-level compatibility.
C26_ExpandedDependenciesPrecede ==
    (Returned /\ Expanded) =>
        \A i \in Declared :
            \A d \in Range(expanded.manifests[i].compatibility.depends_on) :
                d \in DeclaredIds
                    => \E j \in Declared :
                          pkg.plugins[j].id = d /\ Precedes(j, i)

\* The same statement for packages with pairwise distinct ids and no
\* package-level depends_on.
ExpandedDependenciesPrecedeWhenOwn ==
    (Returned /\ Expanded /\ DistinctIds
        /\ pkg.compatibility.depends_on = <<>>) =>
        \A i \in Declared :
            \A d \in Range(expanded.manifests[i].compatibility.depends_on) :
                d \in DeclaredIds
                    => \E j \in Declared :
                          pkg.plugins[j].id = d /\ Precedes(j, i)

(* ------------------------------ C27 ------------------------------------ *)

\* C27: when two declared PluginDefs share an id, a successful install_order
\* still returns every declared PluginDef exactly once: its length is
\* plugins.len() and no declared entry is dropped.
C27_DuplicateIdsAllReturned ==
    (Returned /\ ~DistinctIds) =>
        /\ Len(order.list) = Len(pkg.plugins)
        /\ \A i \in Declared : Occurs(i)

\* What install_order returns instead: one entry for each distinct id.
OneEntryPerId ==
    Returned => Len(order.list) = Cardinality(DeclaredIds)


(* ------------------ vocabulary of version resolution ------------------- *)

DeclaredVersion == cargo.package[1].version

IsLiteral == DeclaredVersion # None /\ DeclaredVersion[1].type = "string"

IsWorkspaceMarker == DeclaredVersion = Some(VersionTable(Some(Bool(TRUE))))

\* The directories above the manifest's own, the root being 0.
AncestorLevels == 0..(Len(ancestors) - 1)

DescriptorAt(level) == ancestors[level + 1]

\* The ancestors the parents of the given path lead through.
NamedLevels ==
    { level \in AncestorLevels : level >= LastParent(cargo_path, ancestors) }

Nearest(levels) == CHOOSE l \in levels : \A other \in levels : other <= l

Descending(hi, lo) ==
    IF hi < lo THEN <<>> ELSE [k \in 1..(hi - lo + 1) |-> hi - k + 1]

FailsWith(result, error) == result.called /\ ~result.ok /\ result.error = error

(* ------------------------------ C21 ------------------------------------ *)

\* C21: version resolution returns a literal version string unchanged
\* without consulting any ancestor directory, and fails with
\* MissingField("package.version") exactly when the version is neither a
\* literal string nor the workspace-inheritance marker (workspace = true).
C21_LiteralOrMarker ==
    resolved.called =>
        /\ IsLiteral =>
             /\ resolved.ok
             /\ resolved.value = DeclaredVersion[1].str
             /\ resolved.consulted = <<>>
        /\ FailsWith(resolved, "MissingField")
               <=> (~IsLiteral /\ ~IsWorkspaceMarker)
        /\ FailsWith(resolved, "MissingField")
               => resolved.field = "package.version"

\* A version table saying workspace = false, below a directory whose
\* Cargo.toml declares a workspace version, is refused.
C21_Witness ==
    /\ resolved.called
    /\ DeclaredVersion = Some(VersionTable(Some(Bool(FALSE))))
    /\ ancestors # <<>>
    /\ DescriptorAt(Len(ancestors) - 1) = WithWorkspaceVersion("1.2.3")
    /\ cargo_path.absolute
    /\ FailsWith(resolved, "MissingField")

(* ------------------------------ C22 ------------------------------------ *)

NamedWithDescriptor == { level \in NamedLevels : DescriptorAt(level).exists }

\* C22: workspace version resolution walks ancestor directories nearest
\* first, skips directories that have no root descriptor file, and stops at
\* the first ancestor that has one: if that descriptor declares no workspace
\* version, resolution fails with InvalidFormat instead of continuing to a
\* higher ancestor that does declare one.
C22_StopsAtFirstDescriptor ==
    (resolved.called /\ IsWorkspaceMarker) =>
        IF NamedWithDescriptor = {}
        THEN /\ resolved.consulted
                  = Descending(Len(ancestors) - 1,
                               LastParent(cargo_path, ancestors))
             /\ FailsWith(resolved, "InvalidFormat")
        ELSE LET first == Nearest(NamedWithDescriptor)
             IN  /\ resolved.consulted = Descending(Len(ancestors) - 1, first)
                 /\ IF DescriptorAt(first).version # None
                    THEN /\ resolved.ok
                         /\ resolved.value = DescriptorAt(first).version[1]
                    ELSE FailsWith(resolved, "InvalidFormat")

\* The walk is nearest first and passes the directories without a descriptor:
\* where the nearest descriptor declares a version, it ends there.
NearestDeclaringDescriptorEndsWalk ==
    (/\ resolved.called
     /\ IsWorkspaceMarker
     /\ NamedWithDescriptor # {}
     /\ DescriptorAt(Nearest(NamedWithDescriptor)).version # None)
        => /\ resolved.ok
           /\ resolved.value
                = DescriptorAt(Nearest(NamedWithDescriptor)).version[1]
           /\ resolved.consulted
                = Descending(Len(ancestors) - 1, Nearest(NamedWithDescriptor))

(* ------------------------------ C23 ------------------------------------ *)

Declaring == { level \in AncestorLevels : DescriptorAt(level).version # None }

\* C23: when a manifest marks its version as workspace-inherited and an
\* ancestor directory's root descriptor declares workspace.package.version
\* = v, resolution yields v; when no ancestor directory yields a workspace
\* version, resolution fails with InvalidFormat.
C23_WorkspaceVersionResolved ==
    (resolved.called /\ IsWorkspaceMarker) =>
        IF Declaring # {}
        THEN /\ resolved.ok
             /\ resolved.value = DescriptorAt(Nearest(Declaring)).version[1]
        ELSE FailsWith(resolved, "InvalidFormat")

\* It holds of a path that names every ancestor, below readable descriptors.
WorkspaceVersionResolvedWhenNamed ==
    (/\ resolved.called
     /\ IsWorkspaceMarker
     /\ NamedLevels = AncestorLevels
     /\ \A level \in AncestorLevels : DescriptorAt(level) # Unreadable)
        => IF Declaring # {}
           THEN /\ resolved.ok
                /\ resolved.value = DescriptorAt(Nearest(Declaring)).version[1]
           ELSE FailsWith(resolved, "InvalidFormat")


(* ---------------------- vocabulary of the generator -------------------- *)

HasPackage == cargo.readable /\ cargo.parses /\ cargo.package # None

MetadataPlugin == cargo.package[1].metadata_plugin

LacksString(key) ==
    MetadataPlugin = None \/ as_str(MetadataPlugin[1][key]) = None

MissingPluginField == \E key \in {"id", "name", "type"} : LacksString(key)

GeneratorFailsWith(error, field) ==
    /\ FailsWith(generated, error)
    /\ generated.field = field

\* The manifest says what the id, name and type of the section say.
NamedAsDeclared(manifest) ==
    /\ manifest.plugin.id = MetadataPlugin[1].id[1].str
    /\ manifest.plugin.name = MetadataPlugin[1].name[1].str
    /\ manifest.plugin.plugin_type = MetadataPlugin[1].type[1].str
    /\ manifest.plugin.version = resolved.value

\* compatibility and binary are taken from their sections, with the defaults
\* for what a section does not say and for a section that is not there.
DefaultedAsDeclared(manifest) ==
    LET meta == MetadataPlugin[1]
    IN  /\ manifest.compatibility.api_version
             = (IF meta.compatibility # None
                   /\ "api_version" \in DOMAIN meta.compatibility[1]
                THEN meta.compatibility[1].api_version.int
                ELSE default_api_version)
        /\ manifest.compatibility.depends_on = <<>>
        /\ manifest.binary.name
             = (IF meta.binary # None /\ "name" \in DOMAIN meta.binary[1]
                THEN meta.binary[1].name.str
                ELSE default_binary_name)

(* ------------------------------ C24 ------------------------------------ *)

Ended == outcome # StillParsing

ValueOptions == {"--cargo-toml", "--output", "-o"}

\* C28: for every argument vector, the manifest-gen argument loop
\* terminates without reading past the end of the arguments and ends in
\* exactly one of: exit status 0 after printing help, exit status 1 after
\* printing an error, or a call to the generator with a chosen path; in
\* particular an option --cargo-toml or --output given as the last argument
\* with no value leads to an error exit and not to an out-of-bounds access.
C28_EndsInHelpErrorOrGenerator ==
    /\ arg_index <= Len(args)
    /\ Ended =>
         /\ outcome \in {Exit(0), Exit(1), CallsGenerator}
         /\ outcome = CallsGenerator => cargo_toml_path # None
         /\ (/\ arg_index = Len(args)
             /\ Argument(arg_index - 1) \in ValueOptions
             /\ outcome # Exit(0))
                => outcome = Exit(1)

\* Nothing but an option without its value is read past the end for, and
\* every other run ends in one of the three ways.
OnlyValuelessOptionPanics ==
    /\ arg_index <= Len(args)
    /\ outcome \in {StillParsing, Exit(0), Exit(1), CallsGenerator, Panicked}
    /\ outcome = CallsGenerator => cargo_toml_path # None
    /\ outcome = Panicked
         => /\ arg_index = Len(args)
            /\ Argument(arg_index - 1) \in ValueOptions

====
